---- MODULE Spec2Model ----
(***************************************************************************)
(* Model of the bounded-retention cleanup service of cms-for-qas-api:      *)
(* DatabaseCleanupService (src/src/services/DatabaseCleanupService.ts) and *)
(* the server bootstrap that drives it (src/src/routes/authRoutes.ts).     *)
(*                                                                         *)
(* Node runs one callback at a time, so every action below is the code     *)
(* that runs between two awaits: afterInsert is one step; an eviction      *)
(* (limparRegistrosAntigos) is a query step followed by a delete step;     *)
(* reconciliation (verificarEstadoAtual) is, per table, a count step and   *)
(* then the eviction's steps, the seeding being part of the step that      *)
(* ends the awaited eviction.                                              *)
(***************************************************************************)
EXTENDS Integers, Sequences, FiniteSets, TLC

(***************************************************************************)
(* Bounds.  The source sets LIMITE_REGISTROS = 500 and                     *)
(* REGISTROS_PARA_REMOVER = 250 (DatabaseCleanupService.ts lines 7-8); the *)
(* model keeps the two names and checks the same algorithm at a scaled     *)
(* threshold and batch, batch < threshold as in the source.                *)
(***************************************************************************)
LIMITE_REGISTROS == 4
REGISTROS_PARA_REMOVER == 2
MaxInserts == 8
MaxRestarts == 1
MaxErrors == 1
MaxInitRows == 6
MaxEvictRows == 4
MaxKey == 3

NULL == 0

\* AppDataSource.entityMetadatas: the known tables, in iteration order.
Entities == <<"t1", "t2">>
Tables == {Entities[i] : i \in 1..Len(Entities)}

VARIABLES
    rows,           \* the store: table -> set of rows
    clock,          \* ids and timestamps handed out so far
    tableCounters,  \* this.tableCounters: a Map, table -> number
    tasks,          \* evictions started by afterInsert and not yet settled
    rec,            \* verificarEstadoAtual: position in its loop
    listening,      \* app.listen has been called
    restarts,       \* process restarts so far
    errors,         \* LoggerService.error calls of the service so far
    nTrig,          \* evictions started by afterInsert so far
    sinceEvict,     \* history: inserts of a table since its last eviction started
    base,           \* history: value the counter was last set to by seeding or reset
    sinceSet,       \* history: inserts of a table since base was set
    preRestart,     \* history: the counters just before the last restart
    phase,          \* history: "unseeded", "seeded" by this process, "live" once inserted into after that
    clean,          \* history: every eviction of the table succeeded and ended before the next insert
    startCount,     \* history: the row counts when this process started
    recEv,          \* history: evictions reconciliation ran on a table in this process
    last,           \* history: the eviction that settled last
    run             \* history of this process, per table: see InitRun

vars == <<rows, clock, tableCounters, tasks, rec, listening, restarts,
          errors, nTrig, sinceEvict, base, sinceSet, preRestart, phase, clean,
          startCount, recEv, last, run>>

hist == <<sinceEvict, base, sinceSet, preRestart, phase, clean, startCount, recEv, last, run>>

Min(a, b) == IF a <= b THEN a ELSE b

Range(s) == {s[i] : i \in 1..Len(s)}

(***************************************************************************)
(* The counter map.                                                        *)
(***************************************************************************)
\* this.tableCounters.get(tableName) || 0
Get(m, t) == IF t \in DOMAIN m /\ m[t] # 0 THEN m[t] ELSE 0

\* this.tableCounters.set(k, v)
MapSetBug(m, k, v) == [x \in (DOMAIN m) \cup {k} |-> v]
MapSet(m, k, v) == [x \in (DOMAIN m) \cup {k} |-> IF x = k THEN v ELSE m[x]]

\* new Map()
EmptyMap == [x \in {} |-> 0]

\* const currentCount = (this.tableCounters.get(tableName) || 0) + 1
CurrentCountBug(m, t) == IF t \in DOMAIN m THEN m[t] + 1 ELSE 0
CurrentCount(m, t) == Get(m, t) + 1

\* if (currentCount >= LIMITE_REGISTROS)
ReachedLimitBug(currentCount) == currentCount > LIMITE_REGISTROS
ReachedLimit(currentCount) == currentCount >= LIMITE_REGISTROS

\* The map afterInsert leaves: set to currentCount, then to 0 when the limit was reached.
AfterInsertCountersBug(m, t) == MapSet(m, t, CurrentCount(m, t))
AfterInsertCounters(m, t) ==
    LET counted == MapSet(m, t, CurrentCount(m, t))
    IN  IF ReachedLimit(CurrentCount(m, t)) THEN MapSet(counted, t, 0) ELSE counted

\* count % LIMITE_REGISTROS
SeedValueBug(count) == count
SeedValue(count) == count % LIMITE_REGISTROS

(***************************************************************************)
(* The store and the eviction query.                                       *)
(***************************************************************************)
\* A row of t1 carries created_at, a row of t2 only data_registro.
NewRow(t, id, ts) ==
    IF t = "t1" THEN [id |-> id, created_at |-> ts, data_registro |-> NULL]
                ELSE [id |-> id, created_at |-> NULL, data_registro |-> ts]

\* COALESCE(created_at, data_registro)
COALESCE(a, b) == IF a # NULL THEN a ELSE b

RecencyKey(r) == COALESCE(r.created_at, r.data_registro)

\* .orderBy(..., "ASC"): every ordering of S ascending by recency key (ties in any order)
RECURSIVE OrderByAscBug(_)
OrderByAscBug(S) ==
    IF S = {} THEN {<<>>}
    ELSE LET first == {r \in S : \A q \in S : RecencyKey(r) >= RecencyKey(q)}
         IN  UNION {{<<r>> \o s : s \in OrderByAscBug(S \ {r})} : r \in first}
RECURSIVE OrderByAsc(_)
OrderByAsc(S) ==
    IF S = {} THEN {<<>>}
    ELSE LET first == {r \in S : \A q \in S : RecencyKey(r) <= RecencyKey(q)}
         IN  UNION {{<<r>> \o s : s \in OrderByAsc(S \ {r})} : r \in first}

\* .take(n)
TakeBug(s, n) == SubSeq(s, 1, Min(n + 1, Len(s)))
Take(s, n) == SubSeq(s, 1, Min(n, Len(s)))

\* .getMany(): the results the query can return on table content S
GetMany(S) == {Range(Take(s, REGISTROS_PARA_REMOVER)) : s \in OrderByAsc(S)}

\* repository.remove(registrosAntigos)
RemoveRowsBug(S, regs) == S \ {r \in regs : \E q \in regs : q.id < r.id}
RemoveRows(S, regs) == S \ regs

(***************************************************************************)
(* Construction: new DatabaseCleanupService() right after                  *)
(* AppDataSource.initialize(), then verificarEstadoAtual() is awaited.     *)
(***************************************************************************)
RecStart == [i |-> 1, pc |-> "count", count |-> 0, regs |-> {}]
RecDone == [i |-> Len(Entities) + 1, pc |-> "done", count |-> 0, regs |-> {}]

NoEviction ==
    [tbl |-> "", by |-> "", ok |-> FALSE, raced |-> FALSE, unchanged |-> FALSE,
     before |-> {}, removed |-> {}]

\* The record of an eviction of t that settled: before and after are the table's
\* rows around its last step.
Settled(t, by, ok, raced, unchanged, before, after) ==
    [tbl |-> t, by |-> by, ok |-> ok, raced |-> raced, unchanged |-> unchanged,
     before |-> before, removed |-> before \ after]

\* What this process has done to a table so far: the value reconciliation seeded
\* its counter with (0 while unseeded), the insert notifications handled for it,
\* the evictions those started, whether reconciliation failed to read its row
\* count, and whether an eviction of it has failed since an insert last started one.
InitRun ==
    [t \in Tables |->
        [seed |-> 0, ins |-> 0, trg |-> 0, countFailed |-> FALSE, evFailed |-> FALSE]]

InitHistory ==
    /\ clock = 0
    /\ restarts = 0
    /\ errors = 0
    /\ sinceEvict = [t \in Tables |-> 0]
    /\ base = [t \in Tables |-> 0]
    /\ sinceSet = [t \in Tables |-> 0]
    /\ preRestart = [t \in Tables |-> 0]
    /\ phase = [t \in Tables |-> "unseeded"]
    /\ clean = [t \in Tables |-> TRUE]
    /\ recEv = [t \in Tables |-> 0]
    /\ last = NoEviction
    /\ run = InitRun

InitProcess ==
    /\ InitHistory
    /\ tableCounters = EmptyMap
    /\ tasks = {}
    /\ nTrig = 0
    /\ rec = RecStart
    /\ listening = FALSE

\* A first start on an empty store.
Init ==
    /\ InitProcess
    /\ rows = [t \in Tables |-> {}]
    /\ startCount = [t \in Tables |-> 0]

\* The stores a process can find: t1 holds n1 rows, at most MaxInitRows, with any
\* timestamps up to MaxKey; t2 holds n2 rows stamped in insertion order.
Store(n1, stamp, n2) ==
    [t \in Tables |-> IF t = "t1" THEN {NewRow(t, i, stamp[i]) : i \in 1..n1}
                                  ELSE {NewRow(t, i, i) : i \in 1..n2}]

\* A start on any store.
InitStartup ==
    /\ InitProcess
    /\ \E n1 \in 0..MaxInitRows, n2 \in {0, LIMITE_REGISTROS} :
          \E stamp \in [1..n1 -> 1..MaxKey] : rows = Store(n1, stamp, n2)
    /\ startCount = [t \in Tables |-> Cardinality(rows[t])]

(***************************************************************************)
(* afterInsert, run synchronously by the ORM after a route's save() has    *)
(* inserted the row.  Routes only run once the server listens.             *)
(***************************************************************************)
NewTaskBug(n, t) ==
    [n |-> n, tbl |-> t, pc |-> "remove", regs |-> {}, seen |-> {}, raced |-> FALSE]
NewTask(n, t) ==
    [n |-> n, tbl |-> t, pc |-> "query", regs |-> {}, seen |-> {}, raced |-> FALSE]

Insert(t) ==
    LET trig == ReachedLimit(CurrentCount(tableCounters, t))
        inFlight == \E k \in tasks : k.tbl = t
    IN  /\ listening
        /\ clock < MaxInserts
        /\ clock' = clock + 1
        /\ rows' = [rows EXCEPT ![t] = @ \cup {NewRow(t, clock + 1, clock + 1)}]
        /\ tableCounters' = AfterInsertCounters(tableCounters, t)
        /\ tasks' = {IF k.tbl = t THEN [k EXCEPT !.raced = TRUE] ELSE k : k \in tasks}
                        \cup (IF trig THEN {NewTask(nTrig + 1, t)} ELSE {})
        /\ nTrig' = IF trig THEN nTrig + 1 ELSE nTrig
        /\ sinceEvict' = [sinceEvict EXCEPT ![t] = IF trig THEN 0 ELSE @ + 1]
        /\ base' = [base EXCEPT ![t] = IF trig THEN 0 ELSE @]
        /\ sinceSet' = [sinceSet EXCEPT ![t] = IF trig THEN 0 ELSE @ + 1]
        /\ phase' = [phase EXCEPT ![t] = IF @ = "unseeded" THEN @ ELSE "live"]
        /\ clean' = [clean EXCEPT ![t] = @ /\ ~inFlight]
        /\ run' = [run EXCEPT ![t].ins = @ + 1,
                              ![t].trg = IF trig THEN @ + 1 ELSE @,
                              ![t].evFailed = IF trig THEN FALSE ELSE @]
        /\ UNCHANGED <<rec, listening, restarts, errors, preRestart, startCount, recEv, last>>

(***************************************************************************)
(* limparRegistrosAntigos started by afterInsert and not awaited: its      *)
(* query and its delete settle later, one step each.                       *)
(***************************************************************************)
TaskQueryOk(k) ==
    /\ k \in tasks /\ k.pc = "query"
    /\ \E regs \in GetMany(rows[k.tbl]) :
          IF regs # {}
            THEN /\ tasks' = (tasks \ {k}) \cup
                               {[k EXCEPT !.pc = "remove", !.regs = regs, !.seen = rows[k.tbl]]}
                 /\ UNCHANGED last
            ELSE /\ tasks' = tasks \ {k}
                 /\ last' = Settled(k.tbl, "insert", TRUE, k.raced, TRUE,
                                    rows[k.tbl], rows[k.tbl])
    /\ UNCHANGED <<rows, clock, tableCounters, rec, listening, restarts, errors, nTrig,
                   sinceEvict, base, sinceSet, preRestart, phase, clean, startCount, recEv,
                   run>>

TaskQueryFail(k) ==
    /\ k \in tasks /\ k.pc = "query"
    /\ errors < MaxErrors
    /\ tasks' = tasks \ {k}
    /\ errors' = errors + 1
    /\ clean' = [clean EXCEPT ![k.tbl] = FALSE]
    /\ run' = [run EXCEPT ![k.tbl].evFailed = TRUE]
    /\ last' = Settled(k.tbl, "insert", FALSE, k.raced, TRUE, rows[k.tbl], rows[k.tbl])
    /\ UNCHANGED <<rows, clock, tableCounters, rec, listening, restarts, nTrig,
                   sinceEvict, base, sinceSet, preRestart, phase, startCount, recEv>>

TaskRemoveOk(k) ==
    /\ k \in tasks /\ k.pc = "remove"
    /\ rows' = [rows EXCEPT ![k.tbl] = RemoveRows(@, k.regs)]
    /\ tasks' = tasks \ {k}
    /\ last' = Settled(k.tbl, "insert", TRUE, k.raced, rows[k.tbl] = k.seen,
                       rows[k.tbl], rows'[k.tbl])
    /\ UNCHANGED <<clock, tableCounters, rec, listening, restarts, errors, nTrig,
                   sinceEvict, base, sinceSet, preRestart, phase, clean, startCount, recEv,
                   run>>

TaskRemoveFail(k) ==
    /\ k \in tasks /\ k.pc = "remove"
    /\ errors < MaxErrors
    /\ tasks' = tasks \ {k}
    /\ errors' = errors + 1
    /\ clean' = [clean EXCEPT ![k.tbl] = FALSE]
    /\ run' = [run EXCEPT ![k.tbl].evFailed = TRUE]
    /\ last' = Settled(k.tbl, "insert", FALSE, k.raced, rows[k.tbl] = k.seen,
                       rows[k.tbl], rows[k.tbl])
    /\ UNCHANGED <<rows, clock, tableCounters, rec, listening, restarts, nTrig,
                   sinceEvict, base, sinceSet, preRestart, phase, startCount, recEv>>

(***************************************************************************)
(* verificarEstadoAtual: for each entity, count, evict once when the count *)
(* is at or over the limit, then seed the counter from the count read.     *)
(***************************************************************************)
RecTable == Entities[rec.i]

\* The loop moves to the next entity; after the last one the bootstrap calls app.listen.
AdvanceBug ==
    /\ rec' = IF rec.i = Len(Entities) THEN RecDone
                                       ELSE [RecStart EXCEPT !.i = rec.i + 1]
    /\ listening' = TRUE
Advance ==
    /\ rec' = IF rec.i = Len(Entities) THEN RecDone
                                       ELSE [RecStart EXCEPT !.i = rec.i + 1]
    /\ listening' = (rec.i = Len(Entities))

\* this.tableCounters.set(entity.tableName, count % LIMITE_REGISTROS), then the next entity
Seed(t, count) ==
    /\ tableCounters' = MapSet(tableCounters, t, SeedValue(count))
    /\ base' = [base EXCEPT ![t] = count % LIMITE_REGISTROS]
    /\ sinceSet' = [sinceSet EXCEPT ![t] = 0]
    /\ phase' = [phase EXCEPT ![t] = "seeded"]
    /\ run' = [run EXCEPT ![t].seed = SeedValue(count)]
    /\ Advance

\* await repository.count() resolves
RecCount ==
    LET t == RecTable
        count == Cardinality(rows[t])
    IN  /\ rec.pc = "count"
        /\ IF count >= LIMITE_REGISTROS
             THEN /\ rec' = [rec EXCEPT !.pc = "query", !.count = count]
                  /\ sinceEvict' = [sinceEvict EXCEPT ![t] = 0]
                  /\ recEv' = [recEv EXCEPT ![t] = @ + 1]
                  /\ UNCHANGED <<tableCounters, listening, base, sinceSet, phase, run>>
             ELSE /\ Seed(t, count)
                  /\ UNCHANGED <<sinceEvict, recEv>>
        /\ UNCHANGED <<rows, clock, tasks, restarts, errors, nTrig, preRestart, clean,
                       startCount, last>>

\* await repository.count() rejects: the entity's catch logs and the loop goes on
RecCountFailBug ==
    /\ rec.pc = "count"
    /\ errors < MaxErrors
    /\ errors' = errors + 1
    /\ run' = [run EXCEPT ![RecTable].countFailed = TRUE]
    /\ rec' = RecDone
    /\ listening' = TRUE
    /\ UNCHANGED <<rows, clock, tableCounters, tasks, restarts, nTrig, sinceEvict, base,
                   sinceSet, preRestart, phase, clean, startCount, recEv, last>>
RecCountFail ==
    /\ rec.pc = "count"
    /\ errors < MaxErrors
    /\ errors' = errors + 1
    /\ run' = [run EXCEPT ![RecTable].countFailed = TRUE]
    /\ Advance
    /\ UNCHANGED <<rows, clock, tableCounters, tasks, restarts, nTrig, sinceEvict, base,
                   sinceSet, preRestart, phase, clean, startCount, recEv, last>>

\* the awaited eviction's getMany() resolves
RecQueryOk ==
    LET t == RecTable
    IN  /\ rec.pc = "query"
        /\ \E regs \in GetMany(rows[t]) :
              IF regs # {}
                THEN /\ rec' = [rec EXCEPT !.pc = "remove", !.regs = regs]
                     /\ UNCHANGED <<tableCounters, listening, base, sinceSet, phase, last,
                                    run>>
                ELSE /\ Seed(t, rec.count)
                     /\ last' = Settled(t, "reconcile", TRUE, FALSE, TRUE, rows[t], rows[t])
        /\ UNCHANGED <<rows, clock, tasks, restarts, errors, nTrig, sinceEvict, preRestart,
                       clean, startCount, recEv>>

\* the awaited eviction's getMany() rejects: caught inside limparRegistrosAntigos
RecQueryFail ==
    LET t == RecTable
    IN  /\ rec.pc = "query"
        /\ errors < MaxErrors
        /\ errors' = errors + 1
        /\ Seed(t, rec.count)
        /\ clean' = [clean EXCEPT ![t] = FALSE]
        /\ last' = Settled(t, "reconcile", FALSE, FALSE, TRUE, rows[t], rows[t])
        /\ UNCHANGED <<rows, clock, tasks, restarts, nTrig, sinceEvict, preRestart,
                       startCount, recEv>>

\* the awaited eviction's remove() resolves
RecRemoveOk ==
    LET t == RecTable
    IN  /\ rec.pc = "remove"
        /\ rows' = [rows EXCEPT ![t] = RemoveRows(@, rec.regs)]
        /\ Seed(t, rec.count)
        /\ last' = Settled(t, "reconcile", TRUE, FALSE, TRUE, rows[t], rows'[t])
        /\ UNCHANGED <<clock, tasks, restarts, errors, nTrig, sinceEvict, preRestart, clean,
                       startCount, recEv>>

\* the awaited eviction's remove() rejects: caught inside limparRegistrosAntigos
RecRemoveFail ==
    LET t == RecTable
    IN  /\ rec.pc = "remove"
        /\ errors < MaxErrors
        /\ errors' = errors + 1
        /\ Seed(t, rec.count)
        /\ clean' = [clean EXCEPT ![t] = FALSE]
        /\ last' = Settled(t, "reconcile", FALSE, FALSE, TRUE, rows[t], rows[t])
        /\ UNCHANGED <<rows, clock, tasks, restarts, nTrig, sinceEvict, preRestart,
                       startCount, recEv>>

(***************************************************************************)
(* The process stops and is started again: the store is kept, the counter  *)
(* map and the evictions in flight are lost, reconciliation runs again.    *)
(***************************************************************************)
Restart ==
    /\ restarts < MaxRestarts
    /\ restarts' = restarts + 1
    /\ tableCounters' = EmptyMap
    /\ tasks' = {}
    /\ rec' = RecStart
    /\ listening' = FALSE
    /\ preRestart' = [t \in Tables |-> Get(tableCounters, t)]
    /\ base' = [t \in Tables |-> 0]
    /\ sinceSet' = [t \in Tables |-> 0]
    /\ phase' = [t \in Tables |-> "unseeded"]
    /\ clean' = [t \in Tables |-> clean[t] /\ ~\E k \in tasks : k.tbl = t]
    /\ startCount' = [t \in Tables |-> Cardinality(rows[t])]
    /\ recEv' = [t \in Tables |-> 0]
    /\ run' = InitRun
    /\ UNCHANGED <<rows, clock, errors, nTrig, sinceEvict, last>>

Reconcile ==
    \/ RecCount
    \/ RecCountFail
    \/ RecQueryOk
    \/ RecQueryFail
    \/ RecRemoveOk
    \/ RecRemoveFail

Evict ==
    \/ \E k \in tasks : TaskQueryOk(k)
    \/ \E k \in tasks : TaskQueryFail(k)
    \/ \E k \in tasks : TaskRemoveOk(k)
    \/ \E k \in tasks : TaskRemoveFail(k)

Next ==
    \/ Reconcile
    \/ \E t \in Tables : Insert(t)
    \/ Evict
    \/ Restart

Spec == Init /\ [][Next]_vars

\* Startup alone, on every store of InitStartup.
SpecStartup == InitStartup /\ [][Reconcile]_vars

(***************************************************************************)
(* limparRegistrosAntigos alone: a listening process whose afterInsert has *)
(* started one eviction of t1, or two, or one of each table, on a store    *)
(* whose t1 holds up to MaxEvictRows rows.                                  *)
(***************************************************************************)
Pending ==
    {{NewTask(1, "t1")},
     {NewTask(1, "t1"), NewTask(2, "t1")},
     {NewTask(1, "t1"), NewTask(2, "t2")}}

InitEvict ==
    /\ InitHistory
    /\ tableCounters = [t \in Tables |-> 0]
    /\ tasks \in Pending
    /\ nTrig = Cardinality(tasks)
    /\ rec = RecDone
    /\ listening = TRUE
    /\ \E n1 \in 0..MaxEvictRows :
          \E stamp \in [1..n1 -> 1..MaxKey] : rows = Store(n1, stamp, LIMITE_REGISTROS)
    /\ startCount = [t \in Tables |-> 0]

SpecEvict == InitEvict /\ [][Evict]_vars

(***************************************************************************)
(* The claims.                                                             *)
(***************************************************************************)
Counter(t) == Get(tableCounters, t)

RowCount(t) == Cardinality(rows[t])

\* An eviction of t has started and not settled.
EvictionInFlight(t) ==
    \/ \E k \in tasks : k.tbl = t
    \/ rec.pc \in {"query", "remove"} /\ RecTable = t

\* This step's afterInsert started an eviction of t.
Started(t) == \E k \in tasks' : k.n > nTrig /\ k.tbl = t

\* C1: in one process run without failures, a table that starts below the
\* threshold and whose evictions all succeed and settle before the next insert
\* never holds more than LIMITE_REGISTROS rows while no eviction of it is in flight.
OrigC1 ==
    \A t \in Tables :
        (restarts = 0 /\ errors = 0 /\ clean[t] /\ ~EvictionInFlight(t))
            => RowCount(t) <= LIMITE_REGISTROS

\* C2: right after an eviction that no insert raced has completed, the table
\* holds at most LIMITE_REGISTROS - REGISTROS_PARA_REMOVER rows.
OrigC2 ==
    (last.ok /\ ~last.raced) =>
        Cardinality(last.before \ last.removed) <= LIMITE_REGISTROS - REGISTROS_PARA_REMOVER

\* C3: between two handler invocations every counter of the map is at least 0
\* and below LIMITE_REGISTROS.
ThmC3 ==
    \A t \in DOMAIN tableCounters :
        tableCounters[t] >= 0 /\ tableCounters[t] < LIMITE_REGISTROS

\* C3 witness: afterInsert has just reset a counter that reached the limit, and the
\* other table's counter is one below the limit.
WitC3 ==
    \E k \in tasks : \E t \in DOMAIN tableCounters :
        /\ ~k.raced /\ k.tbl \in DOMAIN tableCounters /\ tableCounters[k.tbl] = 0
        /\ tableCounters[t] = LIMITE_REGISTROS - 1

\* C4: an insert notification for t starts an eviction of t exactly when it makes
\* t's counter reach LIMITE_REGISTROS, and starts no eviction of another table.
ThmC4 ==
    [][\A t \in Tables :
          Insert(t) =>
              /\ Started(t) <=> (Counter(t) + 1 = LIMITE_REGISTROS)
              /\ \A u \in Tables \ {t} : ~Started(u)]_vars

\* C4 witness: an eviction has been started by the insert that brought the table
\* to the limit, and nothing has followed on that table.
WitC4 ==
    \E k \in tasks :
        /\ k.pc = "query" /\ ~k.raced
        /\ sinceEvict[k.tbl] = 0 /\ RowCount(k.tbl) >= LIMITE_REGISTROS

\* C5: once reconciliation has seeded a table, its counter equals the number of
\* insert notifications for it since its last eviction started.
OrigC5 ==
    \A t \in Tables : phase[t] # "unseeded" => Counter(t) = sinceEvict[t]

\* C5 as amended: a table's counter equals the value it was last set to by startup
\* seeding (the row count read, modulo the limit) or by the reset of an
\* insert-triggered eviction (0; also 0 when neither has happened in this process)
\* plus the insert notifications for the table since then.
ThmC5 ==
    \A t \in Tables : Counter(t) = base[t] + sinceSet[t]

\* C5 witness: after a restart a table was seeded above 0 and then inserted into.
WitC5 ==
    \E t \in Tables : restarts > 0 /\ base[t] > 0 /\ sinceSet[t] > 0 /\ phase[t] = "live"

\* This step ends the eviction reconciliation ran on t.
RecSettles(t) ==
    /\ rec.pc \in {"query", "remove"} /\ RecTable = t
    /\ rec'.i # rec.i /\ restarts' = restarts

\* C6: after the eviction attempt reconciliation made on a table, and before any
\* insert into it, the table's counter is 0.
OrigC6 ==
    \A t \in Tables : (phase[t] = "seeded" /\ recEv[t] > 0) => Counter(t) = 0

\* C6 as amended: the insert notification that starts an eviction leaves the
\* table's counter at 0, and the eviction's later success or failure does not
\* change it; the step that ends reconciliation's eviction attempt leaves the
\* counter at the row count read before that eviction, modulo the limit.
ThmC6 ==
    [][/\ \A t \in Tables : (Insert(t) /\ Started(t)) => Counter(t)' = 0
       /\ \A k \in tasks :
             (TaskQueryOk(k) \/ TaskQueryFail(k) \/ TaskRemoveOk(k) \/ TaskRemoveFail(k))
                 => tableCounters' = tableCounters
       /\ \A t \in Tables :
             RecSettles(t) => Counter(t)' = startCount[t] % LIMITE_REGISTROS]_vars

\* C6 witness: an insert has started an eviction in an earlier run, and in this run
\* reconciliation's eviction attempt has left the table's counter above 0.
WitC6 ==
    \E t \in Tables :
        nTrig > 0 /\ phase[t] = "seeded" /\ recEv[t] = 1 /\ last.tbl = t /\ Counter(t) > 0

\* C7: after a restart, reconciliation leaves a table's counter at the value it
\* had before the restart.
OrigC7 ==
    \A t \in Tables : (restarts > 0 /\ phase[t] = "seeded") => Counter(t) = preRestart[t]

DistinctKeys(S) == \A r, q \in S : RecencyKey(r) = RecencyKey(q) => r = q

\* The n rows of S with the smallest recency keys (keys distinct).
Oldest(S, n) == {r \in S : Cardinality({q \in S : RecencyKey(q) < RecencyKey(r)}) < n}

\* C8: an eviction removes at most REGISTROS_PARA_REMOVER rows; one that succeeds
\* on a table of n rows that nothing else changed between its query and its
\* delete removes exactly min(REGISTROS_PARA_REMOVER, n), so none of an empty
\* table; one that fails removes none.
ThmC8 ==
    last.tbl # "" =>
        /\ last.removed \subseteq last.before
        /\ Cardinality(last.removed) <= REGISTROS_PARA_REMOVER
        /\ (last.ok /\ last.unchanged) =>
               Cardinality(last.removed) = Min(REGISTROS_PARA_REMOVER, Cardinality(last.before))
        /\ ~last.ok => last.removed = {}

\* C8 witness: an eviction succeeded on an unchanged table holding more rows than
\* the batch and removed rows.
WitC8 ==
    /\ last.ok /\ last.unchanged /\ last.by = "insert"
    /\ Cardinality(last.before) > REGISTROS_PARA_REMOVER
    /\ Cardinality(last.removed) = REGISTROS_PARA_REMOVER

\* C9: an eviction that succeeds on an unchanged table of at least
\* REGISTROS_PARA_REMOVER rows with distinct recency keys removes exactly the
\* REGISTROS_PARA_REMOVER rows with the smallest keys, and every row left has a
\* key at or above every removed row's key.
ThmC9 ==
    (/\ last.ok /\ last.unchanged
     /\ DistinctKeys(last.before)
     /\ Cardinality(last.before) >= REGISTROS_PARA_REMOVER) =>
        /\ last.removed = Oldest(last.before, REGISTROS_PARA_REMOVER)
        /\ \A r \in last.removed : \A q \in last.before \ last.removed :
               RecencyKey(q) >= RecencyKey(r)

\* C9 witness: such an eviction on a table whose insertion order is not its
\* recency order, leaving rows behind.
WitC9 ==
    /\ last.ok /\ last.unchanged
    /\ DistinctKeys(last.before)
    /\ Cardinality(last.before) > REGISTROS_PARA_REMOVER
    /\ last.removed # {}
    /\ \E r \in last.removed : \E q \in last.before \ last.removed : q.id < r.id

\* C10: reconciliation of a table whose row count c was read: with
\* c >= LIMITE_REGISTROS it has run exactly one eviction, which removed at most
\* REGISTROS_PARA_REMOVER rows, and the counter is c mod LIMITE_REGISTROS; with
\* c < LIMITE_REGISTROS it has run none and the counter is c.
ThmC10 ==
    \A t \in Tables :
        phase[t] = "seeded" =>
            LET c == startCount[t]
            IN  /\ t \in DOMAIN tableCounters
                /\ c >= LIMITE_REGISTROS =>
                       /\ recEv[t] = 1
                       /\ tableCounters[t] = c % LIMITE_REGISTROS
                       /\ RowCount(t) >= c - REGISTROS_PARA_REMOVER
                       /\ RowCount(t) <= c
                /\ c < LIMITE_REGISTROS =>
                       /\ recEv[t] = 0
                       /\ tableCounters[t] = c
                       /\ RowCount(t) = c

\* C10 witness: a table found over the limit is still at or over it after its one
\* eviction, and its counter was seeded above 0.
WitC10 ==
    \E t \in Tables :
        /\ phase[t] = "seeded" /\ startCount[t] > LIMITE_REGISTROS
        /\ last.ok /\ last.tbl = t /\ last.removed # {}
        /\ RowCount(t) >= LIMITE_REGISTROS
        /\ Counter(t) > 0

\* Reconciliation has ended for every known table: its counter was seeded, after
\* the eviction a count at or over the limit calls for, or its count failure was
\* logged.
ReconciliationDone ==
    /\ rec = RecDone
    /\ \A t \in Tables :
          \/ run[t].countFailed /\ errors > 0
          \/ /\ phase[t] \in {"seeded", "live"}
             /\ t \in DOMAIN tableCounters
             /\ startCount[t] >= LIMITE_REGISTROS => recEv[t] = 1

\* C11: the server listens only once reconciliation has ended for every known
\* table (seeded, evicted first when over the limit, or reported as failed), and
\* no insert notification is handled before that.
ThmC11 ==
    /\ [](listening => ReconciliationDone)
    /\ [][\A t \in Tables : Insert(t) => (ReconciliationDone /\ rec' = RecDone)]_vars

\* C11 witness: an insert has been handled by a process whose reconciliation
\* evicted from one table and failed to count another.
WitC11 ==
    /\ listening
    /\ \E t \in Tables : run[t].ins > 0
    /\ \E t \in Tables : recEv[t] = 1 /\ phase[t] # "unseeded"
    /\ \E t \in Tables : run[t].countFailed

\* C12: the insert notification that reaches the limit returns with the counter at
\* 0 and its eviction pending, neither its query nor its delete complete and no
\* row deleted; while evictions of a table are pending, an insert into it is
\* accepted and handled as any other, and it leaves them pending.
ThmC12 ==
    /\ [](\A t \in Tables : (listening /\ clock < MaxInserts) => ENABLED Insert(t))
    /\ [][\A t \in Tables :
             Insert(t) =>
                 /\ Started(t) =>
                        /\ Counter(t)' = 0
                        /\ \E k \in tasks' :
                               k.n = nTrig + 1 /\ k.tbl = t /\ k.pc = "query" /\ k.regs = {}
                 /\ \A u \in Tables : rows[u] \subseteq rows'[u]
                 /\ Cardinality(rows'[t]) = Cardinality(rows[t]) + 1
                 /\ Counter(t)' = (Counter(t) + 1) % LIMITE_REGISTROS
                 /\ \A k \in tasks : \E j \in tasks' :
                        j.n = k.n /\ j.tbl = k.tbl /\ j.pc = k.pc /\ j.regs = k.regs]_vars

\* C12 witness: inserts into a table were handled and counted from 0 while the
\* eviction its last crossing started has not completed its query.
WitC12 ==
    \E k \in tasks :
        /\ k.pc = "query" /\ k.raced
        /\ Counter(k.tbl) > 1 /\ Counter(k.tbl) = sinceEvict[k.tbl]
        /\ RowCount(k.tbl) = LIMITE_REGISTROS + Counter(k.tbl)

Passed(t) == \E i \in 1..Len(Entities) : Entities[i] = t /\ i < rec.i

\* C14: a table whose row count reconciliation could not read gets no eviction,
\* keeps its rows and stays out of the counter map; the failing step moves the
\* loop to the next table, or ends it and lets the server listen; every table
\* the loop has passed and could count is seeded with its count modulo
\* LIMITE_REGISTROS, after one eviction exactly when that count was at or over
\* the limit; and the loop is never stuck before its end.
ThmC14 ==
    /\ [](\A t \in Tables :
             /\ run[t].countFailed =>
                    /\ Passed(t) /\ errors > 0
                    /\ t \notin DOMAIN tableCounters /\ phase[t] = "unseeded"
                    /\ recEv[t] = 0 /\ RowCount(t) = startCount[t]
             /\ (Passed(t) /\ ~run[t].countFailed) =>
                    /\ t \in DOMAIN tableCounters
                    /\ tableCounters[t] = startCount[t] % LIMITE_REGISTROS
                    /\ recEv[t] = 1 <=> startCount[t] >= LIMITE_REGISTROS)
    /\ [](IF rec = RecDone THEN listening ELSE ENABLED Reconcile)
    /\ [][RecCountFail =>
             /\ rec'.i = rec.i + 1 /\ rec'.pc \in {"count", "done"}
             /\ tableCounters' = tableCounters /\ rows' = rows /\ recEv' = recEv]_vars

\* C14 witness: reconciliation has ended; it could not count one table, which
\* holds LIMITE_REGISTROS rows or more, and after that it counted another,
\* evicted from it and seeded it.
WitC14 ==
    /\ rec = RecDone /\ listening
    /\ \E i \in 1..Len(Entities) : \E j \in (i + 1)..Len(Entities) :
          /\ run[Entities[i]].countFailed
          /\ RowCount(Entities[i]) >= LIMITE_REGISTROS
          /\ ~run[Entities[j]].countFailed
          /\ phase[Entities[j]] = "seeded" /\ recEv[Entities[j]] = 1
          /\ RowCount(Entities[j]) < startCount[Entities[j]]

\* C15: afterInsert runs to its end before the next notification is handled, so
\* in every state reached by any interleaving of inserts, eviction steps and
\* inserts into other tables, a table seeded with s by this process and notified
\* of N inserts since has had exactly (s + N) \div LIMITE_REGISTROS evictions
\* started by them, and its counter is (s + N) % LIMITE_REGISTROS.
ThmC15 ==
    \A t \in Tables :
        LET total == run[t].seed + run[t].ins
        IN  /\ run[t].trg = total \div LIMITE_REGISTROS
            /\ Counter(t) = total % LIMITE_REGISTROS
            /\ Cardinality({k \in tasks : k.tbl = t}) <= run[t].trg

\* C15 witness: a table seeded above 0 has crossed the limit once and been
\* inserted into again, its eviction still pending, with inserts into another
\* table in between.
WitC15 ==
    \E t \in Tables : \E u \in Tables \ {t} :
        /\ run[t].seed > 0 /\ run[t].trg = 1 /\ Counter(t) > 0
        /\ \E k \in tasks : k.tbl = t /\ k.raced
        /\ run[u].ins > 0 /\ Counter(u) > 0

\* C16: for a table that was empty and had counter 0 when this process started
\* serving: while fewer than LIMITE_REGISTROS inserts have been handled, none has
\* started an eviction, and the counter and the row count equal their number;
\* once exactly LIMITE_REGISTROS have been, one eviction has been started and the
\* counter is 0; and when that eviction has succeeded, it has removed the
\* REGISTROS_PARA_REMOVER oldest rows and
\* LIMITE_REGISTROS - REGISTROS_PARA_REMOVER rows remain.
ThmC16 ==
    \A t \in Tables :
        (startCount[t] = 0 /\ run[t].seed = 0 /\ listening) =>
            /\ run[t].ins < LIMITE_REGISTROS =>
                   /\ run[t].trg = 0 /\ ~EvictionInFlight(t)
                   /\ Counter(t) = run[t].ins /\ RowCount(t) = run[t].ins
            /\ run[t].ins = LIMITE_REGISTROS =>
                   /\ run[t].trg = 1 /\ Counter(t) = 0
                   /\ EvictionInFlight(t) => RowCount(t) = LIMITE_REGISTROS
                   /\ (~EvictionInFlight(t) /\ ~run[t].evFailed) =>
                          /\ RowCount(t) = LIMITE_REGISTROS - REGISTROS_PARA_REMOVER
                          /\ last.tbl = t =>
                                 /\ last.ok /\ last.by = "insert"
                                 /\ Cardinality(last.before) = LIMITE_REGISTROS
                                 /\ last.removed = Oldest(last.before, REGISTROS_PARA_REMOVER)
                                 /\ rows[t] = last.before \ last.removed

\* C16 witness: the LIMITE_REGISTROS-th insert into such a table has started an
\* eviction, which has removed the oldest rows, and no insert has followed.
WitC16 ==
    \E t \in Tables :
        /\ startCount[t] = 0 /\ run[t].seed = 0 /\ listening
        /\ run[t].ins = LIMITE_REGISTROS /\ run[t].trg = 1 /\ Counter(t) = 0
        /\ ~EvictionInFlight(t)
        /\ last.tbl = t /\ last.ok /\ ~last.raced
        /\ Cardinality(last.removed) = REGISTROS_PARA_REMOVER
        /\ RowCount(t) = LIMITE_REGISTROS - REGISTROS_PARA_REMOVER

\* C17: while an eviction of a table started by an insert is in flight, the
\* table's counter is the number of inserts handled since that eviction was
\* started, and no second eviction of the table is in flight.
OrigC17 ==
    \A t \in Tables :
        LET inFlight == {k \in tasks : k.tbl = t}
        IN  inFlight # {} =>
                /\ Counter(t) = sinceEvict[t]
                /\ Cardinality(inFlight) = 1

\* This step changes t's entry of the counter map.
Changed(t) ==
    \/ (t \in DOMAIN tableCounters) # (t \in DOMAIN tableCounters')
    \/ t \in DOMAIN tableCounters /\ tableCounters'[t] # tableCounters[t]

\* This step is reconciliation's step on t that seeds t's counter.
Seeds(t) ==
    /\ rec.pc # "done" /\ RecTable = t /\ Reconcile
    /\ rec'.i = rec.i + 1 /\ phase'[t] = "seeded"

\* C18: within one process, a step that changes t's counter is an insert
\* notification for t or reconciliation's seeding of t; an insert notification
\* for another table and every step of an insert-started eviction change no
\* counter of t, and a step of reconciliation's eviction changes at most the
\* counter of the table being reconciled, by seeding it.  An insert notification
\* for t removes no row and starts no eviction of another table, and an eviction
\* started for t changes the rows of t only.
ThmC18 ==
    [][restarts' = restarts =>
          /\ \A t \in Tables : Changed(t) => (Insert(t) \/ Seeds(t))
          /\ \A t \in Tables : \A u \in Tables \ {t} :
                 Insert(u) => (~Changed(t) /\ rows'[t] = rows[t] /\ ~Started(t))
          /\ \A t \in Tables : Insert(t) => rows[t] \subseteq rows'[t]
          /\ \A k \in tasks :
                 (TaskQueryOk(k) \/ TaskQueryFail(k) \/ TaskRemoveOk(k) \/ TaskRemoveFail(k))
                     => /\ tableCounters' = tableCounters
                        /\ \A u \in Tables \ {k.tbl} : rows'[u] = rows[u]
          /\ Reconcile =>
                 \A u \in Tables \ {RecTable} : ~Changed(u) /\ rows'[u] = rows[u]]_vars

\* C18 witness: an eviction of one table has removed rows while the other table,
\* inserted into before and after that eviction was started, keeps its own
\* counter and all its rows.
WitC18 ==
    \E t \in Tables : \E u \in Tables \ {t} :
        /\ last.tbl = t /\ last.ok /\ last.by = "insert" /\ last.removed # {}
        /\ Counter(t) > 0 /\ Counter(u) > 0 /\ Counter(u) # Counter(t)
        /\ restarts = 0 /\ RowCount(u) = run[u].ins /\ Counter(u) = run[u].ins

====
